---------------------------- MODULE Spec2Model ----------------------------
(***************************************************************************)
(* Model of the airline API backend: the token codec (auth/mod.rs), the    *)
(* identity extractor and role gate (middleware/auth.rs), the auth and     *)
(* user handlers (handlers/auth.rs, handlers/user.rs) and the user table   *)
(* operations they call (models/user.rs).                                  *)
(*                                                                         *)
(* Strings the code inspects byte by byte (tokens, header values, the      *)
(* JWT_EXPIRES_IN setting, decimal numbers) are sequences of one-character *)
(* strings.  Strings the code only compares as a whole (emails, passwords, *)
(* names) are TLA+ strings.                                                *)
(***************************************************************************)
EXTENDS Integers, Sequences, FiniteSets, TLC

VARIABLES
    now,        \* Utc::now() in seconds
    ticks,      \* number of clock steps taken (bounded)
    expiresIn,  \* process environment: JWT_EXPIRES_IN
    tok,        \* codec runs: the token create_token returned, with what it was issued for
    presented,  \* codec runs: the string last handed to verify_token
    vres,       \* codec runs: what verify_token returned for it, and when
    users,      \* table users: set of rows
    nextId,     \* table users: AUTO_INCREMENT counter
    tickets,    \* table tickets: set of user ids owning at least one ticket
    issued,     \* tokens clients hold, with the identity each was issued for
    req         \* the request being served: its place in the pipeline and its outcome

vars == <<now, ticks, expiresIn, tok, presented, vres,
          users, nextId, tickets, issued, req>>

codecVars == <<tok, presented, vres>>
appVars == <<users, nextId, tickets, issued, req>>

----------------------------------------------------------------------------
(* Bounds of the model *)

MaxTicks == 2
MaxUsers == 2

TickSteps == {1, 61}

----------------------------------------------------------------------------
(* Values *)

Admin == "Admin"
Worker == "Worker"
User == "User"
UserRole == {Admin, Worker, User}

NoneStr == "<None>"

Secret == "k"
OtherSecret == "x"

(* Errors: AppError variants with their message, a sequence of strings. *)
AppError(kind, msg) == [kind |-> kind, msg |-> msg]
AuthError(msg) == AppError("AuthError", msg)
AuthzError(msg) == AppError("AuthzError", msg)
ValidationError(msg) == AppError("ValidationError", msg)
NotFoundError(msg) == AppError("NotFoundError", msg)
ConflictError(msg) == AppError("ConflictError", msg)
InternalError(msg) == AppError("InternalError", msg)
DatabaseError(msg) == AppError("DatabaseError", msg)

(* sqlx::Error values the database layer returns.  code is db_err.code(),
   "" when the driver gives none. *)
SqlxDatabase(code) == [kind |-> "Database", code |-> code]
SqlxRowNotFound == [kind |-> "RowNotFound", code |-> ""]
SqlxPoolTimedOut == [kind |-> "PoolTimedOut", code |-> ""]
NoFault == [kind |-> "None", code |-> ""]
SqlxErrors ==
    {SqlxDatabase(code) : code \in {"23000", "1062", "23503", "1452", "1205", ""}}
    \cup {SqlxRowNotFound, SqlxPoolTimedOut}

(* Display of sqlx::Error: the text of the underlying failure *)
SqlxDisplay(err) ==
    CASE err.kind = "Database" -> <<"error returned from database: ", err.code>>
      [] err.kind = "RowNotFound" ->
            <<"no rows returned by a query that expected to return at least one row">>
      [] err.kind = "PoolTimedOut" ->
            <<"pool timed out while waiting for an open connection">>

MapDbErrorDuplicateUnmapped(err) ==
    IF err.kind = "Database" /\ err.code \in {"23503", "1452"}
    THEN ValidationError(<<"Foreign key constraint violation">>)
    ELSE IF err.kind = "RowNotFound" THEN NotFoundError(<<"Resource not found">>)
    ELSE DatabaseError(SqlxDisplay(err))

map_db_error(err) ==
    IF err.kind = "Database"
    THEN IF err.code = "23000" \/ err.code = "1062"
         THEN ConflictError(<<"Duplicate entry violation">>)
         ELSE IF err.code = "23503" \/ err.code = "1452"
         THEN ValidationError(<<"Foreign key constraint violation">>)
         ELSE DatabaseError(SqlxDisplay(err))
    ELSE IF err.kind = "RowNotFound"
    THEN NotFoundError(<<"Resource not found">>)
    ELSE DatabaseError(SqlxDisplay(err))

StatusForbiddenAs401(err) ==
    CASE err.kind \in {"AuthError", "AuthzError"} -> 401
      [] err.kind = "ValidationError" -> 400
      [] err.kind = "NotFoundError" -> 404
      [] err.kind = "ConflictError" -> 409
      [] err.kind = "DatabaseError" -> 500
      [] err.kind = "InternalError" -> 500

status_code(err) ==
    CASE err.kind = "AuthError" -> 401
      [] err.kind = "AuthzError" -> 403
      [] err.kind = "ValidationError" -> 400
      [] err.kind = "NotFoundError" -> 404
      [] err.kind = "ConflictError" -> 409
      [] err.kind = "DatabaseError" -> 500
      [] err.kind = "InternalError" -> 500

(* Display of AppError (thiserror): the variant's prefix, then its text *)
DisplayPrefix(kind) ==
    CASE kind = "AuthError" -> "Authentication error: "
      [] kind = "AuthzError" -> "Authorization error: "
      [] kind = "ValidationError" -> "Validation error: "
      [] kind = "NotFoundError" -> "Resource not found: "
      [] kind = "ConflictError" -> "Conflict error: "
      [] kind = "DatabaseError" -> "Database error: "
      [] kind = "InternalError" -> "Internal server error: "

to_string(err) == <<DisplayPrefix(err.kind)>> \o err.msg

----------------------------------------------------------------------------
(* Decimal conversions: i32::to_string, str::parse::<i32>, str::parse::<i64>,
   and the JSON numbers of the claims. *)

Digits == <<"0", "1", "2", "3", "4", "5", "6", "7", "8", "9">>
DigitSet == {Digits[i] : i \in 1..10}
DigitChar(d) == Digits[d + 1]
DigitVal(c) == CHOOSE d \in 0..9 : Digits[d + 1] = c

RECURSIVE ToDec(_)
ToDec(n) == IF n < 10 THEN <<DigitChar(n)>>
            ELSE ToDec(n \div 10) \o <<DigitChar(n % 10)>>

RECURSIVE FromDec(_)
FromDec(s) == IF Len(s) = 0 THEN 0
              ELSE 10 * FromDec(SubSeq(s, 1, Len(s) - 1)) + DigitVal(s[Len(s)])

AllDigits(s) == \A i \in 1..Len(s) : s[i] \in DigitSet

RECURSIVE NegFromDec(_)
NegFromDec(s) == IF Len(s) = 0 THEN 0
                 ELSE 10 * NegFromDec(SubSeq(s, 1, Len(s) - 1)) - DigitVal(s[Len(s)])

RECURSIVE StripZeros(_)
StripZeros(s) == IF Len(s) > 1 /\ s[1] = "0" THEN StripZeros(SubSeq(s, 2, Len(s))) ELSE s

(* a <= b for decimal numerals without leading zeros *)
DecLeq(a, b) ==
    \/ Len(a) < Len(b)
    \/ /\ Len(a) = Len(b)
       /\ \/ a = b
          \/ \E i \in 1..Len(a) :
                /\ DigitVal(a[i]) < DigitVal(b[i])
                /\ \A j \in 1..(i - 1) : a[j] = b[j]

I32MaxDigits == <<"2", "1", "4", "7", "4", "8", "3", "6", "4", "7">>
I32MinDigits == <<"2", "1", "4", "7", "4", "8", "3", "6", "4", "8">>
I64MaxDigits == <<"9", "2", "2", "3", "3", "7", "2", "0", "3", "6",
                  "8", "5", "4", "7", "7", "5", "8", "0", "7">>
I64MinDigits == <<"9", "2", "2", "3", "3", "7", "2", "0", "3", "6",
                  "8", "5", "4", "7", "7", "5", "8", "0", "8">>

IntToStringAbs(n) == ToDec(IF n < 0 THEN -n ELSE n)

(* i32::to_string *)
IntToString(n) == IF n < 0 THEN <<"-">> \o ToDec(-n) ELSE ToDec(n)

ParseFail == [ok |-> FALSE, val |-> 0]

(* Rust's integer FromStr: an optional sign, at least one digit, digits only,
   the value within the type's range (given by the numerals of its largest
   and of its smallest value). *)
ParseInt(s, maxDigits, minDigits) ==
    LET signed == Len(s) > 0 /\ s[1] \in {"-", "+"}
        negative == signed /\ s[1] = "-"
        body == IF signed THEN SubSeq(s, 2, Len(s)) ELSE s
        mag == StripZeros(body)
    IN  IF Len(body) = 0 \/ ~AllDigits(body) THEN ParseFail
        ELSE IF ~DecLeq(mag, IF negative THEN minDigits ELSE maxDigits) THEN ParseFail
        ELSE [ok |-> TRUE, val |-> IF negative THEN NegFromDec(mag) ELSE FromDec(mag)]

ParseI32(s) == ParseInt(s, I32MaxDigits, I32MinDigits)

ParseI64(s) == ParseInt(s, I64MaxDigits, I64MinDigits)

(* A JSON number read into a usize: digits only, no sign, no leading zero. *)
ParseJsonUsize(s) ==
    IF Len(s) = 0 \/ ~AllDigits(s) \/ (Len(s) > 1 /\ s[1] = "0") THEN ParseFail
    ELSE [ok |-> TRUE, val |-> FromDec(s)]


----------------------------------------------------------------------------
(* Token codec: auth/mod.rs *)

Unset == <<"<unset>">>

ThirtyDays == 2592000

DurationNone == [kind |-> "None", secs |-> 0]
DurationPanic == [kind |-> "Panic", secs |-> 0]

UnitSeconds(unit) ==
    CASE unit = "s" -> 1
      [] unit = "m" -> 60
      [] unit = "h" -> 3600
      [] unit = "d" -> 86400
      [] OTHER -> 0

(* parse_duration: split_at(len - 1) panics on the empty string (the
   subtraction underflows); the amount is read as an i64. *)
parse_duration(duration_str) ==
    IF Len(duration_str) = 0 THEN DurationPanic
    ELSE LET amount_str == SubSeq(duration_str, 1, Len(duration_str) - 1)
             unit == duration_str[Len(duration_str)]
             amount == ParseI64(amount_str)
         IN  IF ~amount.ok THEN DurationNone
             ELSE IF unit \in {"s", "m", "h", "d"}
                  THEN [kind |-> "Some", secs |-> amount.val * UnitSeconds(unit)]
                  ELSE DurationNone

NoClaims == [sub |-> <<>>, role |-> NoneStr, exp |-> 0, iat |-> 0]

(* The wire form.  The header and the claims are each one segment of
   base64url characters; the claims segment lists sub, role, exp and iat,
   separated by "_".  Characters outside B64Chars do not decode. *)
B64Chars == DigitSet \cup {"A", "W", "U", "H", "G", "a", "-", "_"}

HeaderHS256 == <<"H">>
HeaderHS384 == <<"G">>

RoleChar(role) ==
    CASE role = Admin -> "A"
      [] role = Worker -> "W"
      [] role = User -> "U"

RoleOfChar(c) ==
    CASE c = "A" -> Admin
      [] c = "W" -> Worker
      [] c = "U" -> User
      [] OTHER -> NoneStr

EncodeClaims(c) ==
    c.sub \o <<"_", RoleChar(c.role), "_">> \o ToDec(c.exp) \o <<"_">> \o ToDec(c.iat)

(* HMAC over header.payload, keyed by the secret: distinct messages or
   secrets give distinct signatures.  The signature holds no "."; no
   message holds "~". *)
Sign(secret, message) ==
    <<secret>> \o [i \in 1..Len(message) |-> IF message[i] = "." THEN "~" ELSE message[i]]

encode(claims, secret) ==
    LET message == HeaderHS256 \o <<".">> \o EncodeClaims(claims)
    IN  message \o <<".">> \o Sign(secret, message)

TokenPanic == [kind |-> "Panic", token |-> <<>>, claims |-> NoClaims]

create_token(user_id, role, t, cfg, secret) ==
    LET expiration == IF cfg = Unset THEN <<"3", "0", "d">> ELSE cfg
        parsed == parse_duration(expiration)
        expires_in == IF parsed.kind = "Some" THEN parsed.secs ELSE ThirtyDays
        claims == [sub |-> IntToString(user_id), role |-> role,
                   exp |-> t + expires_in, iat |-> t]
    IN  IF parsed.kind = "Panic" THEN TokenPanic
        ELSE [kind |-> "Ok", token |-> encode(claims, secret), claims |-> claims]

(* jsonwebtoken's decode, as verify_token calls it: Validation::default()
   asks for HS256, checks exp and allows a leeway of 60 seconds. *)
Leeway == 60

RECURSIVE LastDot(_)
LastDot(s) == IF Len(s) = 0 THEN 0
              ELSE IF s[Len(s)] = "." THEN Len(s)
              ELSE LastDot(SubSeq(s, 1, Len(s) - 1))

RECURSIVE SplitOn(_, _)
SplitOn(s, sep) ==
    IF \A i \in 1..Len(s) : s[i] # sep THEN <<s>>
    ELSE LET k == CHOOSE i \in 1..Len(s) :
                      s[i] = sep /\ \A j \in 1..(i - 1) : s[j] # sep
         IN  <<SubSeq(s, 1, k - 1)>> \o SplitOn(SubSeq(s, k + 1, Len(s)), sep)

IsB64(s) == \A i \in 1..Len(s) : s[i] \in B64Chars

(* Header::from_encoded: the algorithm named, or the decode error. *)
DecodeHeader(h) ==
    IF ~IsB64(h) THEN "Base64"
    ELSE IF h = HeaderHS256 THEN "HS256"
    ELSE IF h = HeaderHS384 THEN "HS384"
    ELSE "Json"

DecodeClaims(p) ==
    LET f == SplitOn(p, "_")
        exp == ParseJsonUsize(f[3])
        iat == ParseJsonUsize(f[4])
    IN  IF ~IsB64(p) THEN [kind |-> "Base64", claims |-> NoClaims]
        ELSE IF Len(f) # 4 \/ Len(f[2]) # 1 THEN [kind |-> "Json", claims |-> NoClaims]
        ELSE IF RoleOfChar(f[2][1]) = NoneStr \/ ~exp.ok \/ ~iat.ok
             THEN [kind |-> "Json", claims |-> NoClaims]
        ELSE [kind |-> "Ok",
              claims |-> [sub |-> f[1], role |-> RoleOfChar(f[2][1]),
                          exp |-> exp.val, iat |-> iat.val]]

ExpiredNoLeeway(exp, t) == exp < t

ExpiredLeewayAdded(exp, t) == exp - Leeway < t

Expired(exp, t) == exp < t - Leeway

SignatureAnyAccepted(signature, message, secret) == TRUE

SignatureOk(signature, message, secret) == signature = Sign(secret, message)

JwtError(kind) == [kind |-> kind, claims |-> NoClaims]

decode(token, secret, t) ==
    LET d2 == LastDot(token)
        signature == SubSeq(token, d2 + 1, Len(token))
        message == SubSeq(token, 1, d2 - 1)
        d1 == LastDot(message)
        payload == SubSeq(message, d1 + 1, Len(message))
        header == SubSeq(message, 1, d1 - 1)
        alg == DecodeHeader(header)
        body == DecodeClaims(payload)
    IN  IF d2 = 0 \/ d1 = 0 THEN JwtError("InvalidToken")
        ELSE IF alg \in {"Base64", "Json"} THEN JwtError(alg)
        ELSE IF alg # "HS256" THEN JwtError("InvalidAlgorithm")
        ELSE IF ~SignatureOk(signature, message, secret) THEN JwtError("InvalidSignature")
        ELSE IF body.kind # "Ok" THEN JwtError(body.kind)
        ELSE IF Expired(body.claims.exp, t) THEN JwtError("ExpiredSignature")
        ELSE body

NoError == AppError("None", <<>>)

MapJwtErrorAllInvalid(kind) ==
    IF kind = "ExpiredSignature" THEN AuthError(<<"Token expired">>)
    ELSE AuthError(<<"Invalid token">>)

MapJwtError(kind) ==
    CASE kind = "ExpiredSignature" -> AuthError(<<"Token expired">>)
      [] kind = "InvalidToken" -> AuthError(<<"Invalid token">>)
      [] OTHER -> AuthError(<<"Token validation failed: ", kind>>)

verify_token(token, secret, t) ==
    LET d == decode(token, secret, t)
    IN  IF d.kind = "Ok" THEN [ok |-> TRUE, claims |-> d.claims, err |-> NoError]
        ELSE [ok |-> FALSE, claims |-> NoClaims, err |-> MapJwtError(d.kind)]

----------------------------------------------------------------------------
(* Identity extractor and role gate: middleware/auth.rs *)

NoHeader == [present |-> FALSE, value |-> <<>>]
HeaderOf(value) == [present |-> TRUE, value |-> value]

Bearer == <<"B", "e", "a", "r", "e", "r", " ">>
BearerLower == <<"b", "e", "a", "r", "e", "r", " ">>
BearerNoSpace == <<"B", "e", "a", "r", "e", "r">>

(* HeaderValue::to_str fails on bytes outside visible ASCII *)
NonAscii == {"0x80"}
ToStrOk(value) == \A i \in 1..Len(value) : value[i] \notin NonAscii

StartsWith(s, prefix) ==
    Len(s) >= Len(prefix) /\ SubSeq(s, 1, Len(prefix)) = prefix

HasBearerPrefixNoSpace(value) == StartsWith(value, BearerNoSpace)

HasBearerPrefix(value) == StartsWith(value, Bearer)

NoAuthUser == [user_id |-> 0, role |-> NoneStr]

Extracted(ok, auth_user, err, called) ==
    [ok |-> ok, auth_user |-> auth_user, err |-> err, verifyCalled |-> called]

(* AuthUser::from_request_parts *)
from_request_parts(header, secret, t) ==
    IF ~header.present \/ ~ToStrOk(header.value) \/ ~HasBearerPrefix(header.value)
    THEN Extracted(FALSE, NoAuthUser,
                   AuthError(<<"Missing or invalid Authorization header">>), FALSE)
    ELSE LET v == verify_token(SubSeq(header.value, 8, Len(header.value)), secret, t)
             user_id == ParseI32(v.claims.sub)
         IN  IF ~v.ok THEN Extracted(FALSE, NoAuthUser, v.err, TRUE)
             ELSE IF ~user_id.ok
                  THEN Extracted(FALSE, NoAuthUser,
                                 AuthError(<<"Invalid user ID in token">>), TRUE)
             ELSE Extracted(TRUE, [user_id |-> user_id.val, role |-> v.claims.role],
                            NoError, TRUE)

RoleAllowedAny(role, allowed_roles) == allowed_roles # {}

(* allowed_roles.contains(&auth_user.role) *)
RoleAllowed(role, allowed_roles) == role \in allowed_roles

admin_only == {Admin}
staff_only == {Admin, Worker}
authenticated == {Admin, Worker, User}

(* The router: routes/auth.rs, routes/users.rs.  staff_only guards no route
   of the router; what runs behind it is a handler without effect. *)
PublicRoutes == {"register", "login", "login_phone"}
UserRoutes == {"users_delete"}
CrudRoutes == {"users_list", "users_get", "users_create", "users_update"}
IdRoutes == {"users_delete", "users_get", "users_update"}
ProtectedRoutes == {"me", "logout"}
StaffRoutes == {"staff"}
GatedRoutes == UserRoutes \cup ProtectedRoutes \cup StaffRoutes

RouteGateUsersAuthenticated(route) ==
    CASE route \in UserRoutes \cup CrudRoutes -> authenticated
      [] route \in ProtectedRoutes -> authenticated
      [] route \in StaffRoutes -> staff_only

RouteGate(route) ==
    CASE route \in UserRoutes \cup CrudRoutes -> admin_only
      [] route \in ProtectedRoutes -> authenticated
      [] route \in StaffRoutes -> staff_only

----------------------------------------------------------------------------
(* Table users and the password hashing: models/user.rs *)

NoPassword == <<>>

(* bcrypt::hash and bcrypt::verify *)
hash(pass) == <<"$2b$", pass>>

(* What a call of bcrypt::hash can return: the hash, or a BcryptError of
   the primitive (no randomness for the salt). *)
BcryptRand == "bcrypt: failed to generate salt"
HashOk(pass) == [ok |-> TRUE, val |-> hash(pass), cause |-> ""]
HashErr == [ok |-> FALSE, val |-> <<>>, cause |-> BcryptRand]
HashOutcomes(pass) == {HashOk(pass), HashErr}

VerifyAlwaysTrue(password, stored) == TRUE

verify(password, stored) == stored[2] = password

Found(row) == [ok |-> TRUE, row |-> row, err |-> NoError]
NoRow == [user_id |-> 0, email |-> NoneStr, password |-> NoPassword, role |-> NoneStr,
          first_name |-> "", last_name |-> "", passport_number |-> NoneStr,
          nationality |-> NoneStr, date_of_birth |-> NoneStr,
          contact_number |-> NoneStr, gender |-> NoneStr]
RowNotFound == [ok |-> FALSE, row |-> NoRow, err |-> map_db_error(SqlxRowNotFound)]

(* struct User: the columns find_by_id and find_all select, password not
   among them; struct UserWithPassword: those and password *)
UserColumns == DOMAIN NoRow \ {"password"}
UserWithPasswordColumns == DOMAIN NoRow

SelectAllColumns(u) == u

SelectUserColumns(u) == [c \in UserColumns |-> u[c]]

(* fetch_one returns the first row of the result; which row is first is
   the database's choice when several match. *)
find_by_id(us, id) == {Found(SelectUserColumns(u)) : u \in {u \in us : u.user_id = id}}
find_by_email(us, email) == {Found(u) : u \in {u \in us : u.email = email}}
find_by_phone(us, phone) == {Found(u) : u \in {u \in us : u.contact_number = phone}}

FetchOne(found) == IF found = {} THEN {RowNotFound} ELSE found

check_email_exists(us, email) == \E u \in us : u.email = email

(* check_email_exists and check_passport_exists with exclude_id *)
check_email_exists_excluding(us, email, id) ==
    \E u \in us : u.email = email /\ u.user_id # id
check_passport_exists(us, passport) == \E u \in us : u.passport_number = passport
check_passport_exists_excluding(us, passport, id) ==
    \E u \in us : u.passport_number = passport /\ u.user_id # id

UnwrapOrAdmin(role) == IF role = NoneStr THEN Admin ELSE role

(* user_data.role.unwrap_or(UserRole::User) *)
UnwrapOrUser(role) == IF role = NoneStr THEN User ELSE role

(* User::create: the row inserted under the next AUTO_INCREMENT value *)
NewRow(id, dto) ==
    [user_id |-> id,
     email |-> dto.email,
     password |-> IF dto.password = NoneStr THEN NoPassword ELSE hash(dto.password),
     role |-> UnwrapOrUser(dto.role),
     first_name |-> dto.first_name,
     last_name |-> dto.last_name,
     passport_number |-> dto.passport_number,
     nationality |-> dto.nationality,
     date_of_birth |-> dto.date_of_birth,
     contact_number |-> dto.contact_number,
     gender |-> dto.gender]

(* A statement sent to the database: on the pool (its own implicit
   transaction) or inside the transaction the function opened *)
Stmt(sql, scope) == [sql |-> sql, scope |-> scope, clauses |-> <<>>, binds |-> <<>>]
Begin == Stmt("BEGIN", "tx")
Commit == Stmt("COMMIT", "tx")
(* a Transaction dropped without commit rolls back *)
Rollback == Stmt("ROLLBACK", "tx")

(* create and update, lines 200-205 and 240-245: the password, if any, is
   hashed first; a failure of the primitive is returned at once *)
HashedPasswordIgnoresFailure(password, h) ==
    IF password = NoneStr \/ ~h.ok
    THEN [ok |-> TRUE, val |-> NoPassword, err |-> NoError]
    ELSE [ok |-> TRUE, val |-> h.val, err |-> NoError]

HashedPassword(password, h) ==
    IF password = NoneStr THEN [ok |-> TRUE, val |-> NoPassword, err |-> NoError]
    ELSE IF h.ok THEN [ok |-> TRUE, val |-> h.val, err |-> NoError]
    ELSE [ok |-> FALSE, val |-> NoPassword,
          err |-> InternalError(<<"Password hashing failed: ", h.cause>>)]

(* User::create *)
InsertColumns == <<"email", "password", "role", "first_name", "last_name",
                   "passport_number", "nationality", "date_of_birth",
                   "contact_number", "gender">>

create(us, nid, user_data, h, fault) ==
    LET hp == HashedPassword(user_data.password, h)
        row == [NewRow(nid, user_data) EXCEPT !.password = hp.val]
        insert == [Stmt("INSERT", "tx") EXCEPT
                      !.clauses = InsertColumns,
                      !.binds = [i \in 1..Len(InsertColumns) |-> row[InsertColumns[i]]]]
    IN  IF ~hp.ok
        THEN [ok |-> FALSE, err |-> hp.err, id |-> 0, users |-> us, nextId |-> nid,
              stmts |-> <<>>]
        ELSE IF fault # NoFault
        THEN [ok |-> FALSE, err |-> map_db_error(fault), id |-> 0, users |-> us,
              nextId |-> nid, stmts |-> <<Begin, insert, Rollback>>]
        ELSE [ok |-> TRUE, err |-> NoError, id |-> nid, users |-> us \cup {row},
              nextId |-> nid + 1, stmts |-> <<Begin, insert, Commit>>]

(* User::update: the SET clauses (lines 252-260) and the binds (lines
   277-306) are built by two runs over the fields *)
ClauseOrder == <<"email", "password", "first_name", "last_name", "passport_number",
                 "nationality", "date_of_birth", "contact_number", "gender">>

BindOrderNamesSwapped ==
    <<"email", "password", "last_name", "first_name", "passport_number",
      "nationality", "date_of_birth", "contact_number", "gender">>

BindOrder == <<"email", "password", "first_name", "last_name", "passport_number",
               "nationality", "date_of_birth", "contact_number", "gender">>

IsSome(user_data, hashed_password, column) ==
    IF column = "password" THEN hashed_password # NoPassword
    ELSE user_data[column] # NoneStr

ValueOf(user_data, hashed_password, column) ==
    IF column = "password" THEN hashed_password ELSE user_data[column]

RECURSIVE PresentColumns(_, _, _)
PresentColumns(order, user_data, hashed_password) ==
    IF order = <<>> THEN <<>>
    ELSE (IF IsSome(user_data, hashed_password, Head(order)) THEN <<Head(order)>> ELSE <<>>)
         \o PresentColumns(Tail(order), user_data, hashed_password)

set_clauses(user_data, hashed_password) ==
    PresentColumns(ClauseOrder, user_data, hashed_password)

binds(user_data, hashed_password, id) ==
    LET columns == PresentColumns(BindOrder, user_data, hashed_password)
    IN  [i \in 1..Len(columns) |-> ValueOf(user_data, hashed_password, columns[i])]
        \o <<id>>

(* "UPDATE users SET c1 = ?, ... WHERE user_id = ?": the i-th placeholder
   takes the i-th bound value, the last one the id of the WHERE clause *)
ExecuteUpdate(us, clauses, bound) ==
    LET id == bound[Len(bound)]
        Set(u) == [c \in DOMAIN u |->
                      IF \E i \in 1..Len(clauses) : clauses[i] = c
                      THEN bound[CHOOSE i \in 1..Len(clauses) : clauses[i] = c]
                      ELSE u[c]]
    IN  [users |-> {IF u.user_id = id THEN Set(u) ELSE u : u \in us},
         rows_affected |-> Cardinality({u \in us : u.user_id = id})]

UpdateEmptyStillExecutes(clauses) == FALSE

(* lines 263-265: no field present *)
NothingToUpdate(clauses) == clauses = <<>>

update(us, id, user_data, h, fault) ==
    LET hp == HashedPassword(user_data.password, h)
        clauses == set_clauses(user_data, hp.val)
        bound == binds(user_data, hp.val, id)
        stmt == [Stmt("UPDATE", "tx") EXCEPT !.clauses = clauses, !.binds = bound]
        done == ExecuteUpdate(us, clauses, bound)
    IN  IF ~hp.ok
        THEN [ok |-> FALSE, err |-> hp.err, val |-> FALSE, users |-> us, stmts |-> <<>>]
        ELSE IF NothingToUpdate(clauses)
        THEN [ok |-> TRUE, err |-> NoError, val |-> FALSE, users |-> us,
              stmts |-> <<Begin, Rollback>>]
        ELSE IF fault # NoFault
        THEN [ok |-> FALSE, err |-> map_db_error(fault), val |-> FALSE, users |-> us,
              stmts |-> <<Begin, stmt, Rollback>>]
        ELSE [ok |-> TRUE, err |-> NoError, val |-> done.rows_affected > 0,
              users |-> done.users, stmts |-> <<Begin, stmt, Commit>>]

(* User::delete: the tickets of the user are counted, then the row is
   deleted; both statements go to the pool *)
TicketCountAlwaysZero(tk, id) == 0

ticket_count(tk, id) == Cardinality({t \in tk : t = id})

delete(us, tk, id) ==
    LET count == [Stmt("count_tickets", "pool") EXCEPT !.binds = <<id>>]
        del == [Stmt("DELETE", "pool") EXCEPT !.binds = <<id>>]
    IN  IF ticket_count(tk, id) > 0
        THEN [ok |-> FALSE,
              err |-> ConflictError(<<"Cannot delete user with existing tickets">>),
              val |-> FALSE, users |-> us, stmts |-> <<count>>]
        ELSE [ok |-> TRUE, err |-> NoError,
              val |-> Cardinality({u \in us : u.user_id = id}) > 0,
              users |-> {u \in us : u.user_id # id}, stmts |-> <<count, del>>]

----------------------------------------------------------------------------
(* A request and its response *)

NoInput == [first_name |-> "", last_name |-> "", email |-> NoneStr, password |-> NoneStr,
            role |-> NoneStr, passport_number |-> NoneStr, nationality |-> NoneStr,
            date_of_birth |-> NoneStr, contact_number |-> NoneStr, gender |-> NoneStr,
            phone |-> NoneStr]

Jo == [NoInput EXCEPT !.first_name = "Jo", !.last_name = "Doe", !.email = "jo@x.com",
                      !.password = "pw"]

(* UpdateUserDto with every field None *)
NoUpdate == [email |-> NoneStr, password |-> NoneStr, first_name |-> NoneStr,
             last_name |-> NoneStr, passport_number |-> NoneStr, nationality |-> NoneStr,
             date_of_birth |-> NoneStr, contact_number |-> NoneStr, gender |-> NoneStr]


IdleReq ==
    [pc |-> "idle", route |-> "", header |-> NoHeader, id |-> 0, allowed |-> {},
     input |-> NoInput, update |-> NoUpdate, fault |-> NoFault, hashed |-> HashOk(""),
     matched |-> NoRow, stmts |-> <<>>, val |-> FALSE, data |-> {}, error |-> <<>>,
     auth_user |-> NoAuthUser, ext |-> NoAuthUser,
     verifyCalled |-> FALSE, tokenVerified |-> FALSE, handlerRan |-> FALSE,
     status |-> 0, err |-> NoError, token |-> <<>>, tokenCalls |-> 0, panicked |-> FALSE]

(* AppError::into_response *)
Failed(r, err) ==
    [r EXCEPT !.pc = "done", !.status = status_code(err), !.err = err,
              !.error = to_string(err)]

Succeeded(r) == [r EXCEPT !.pc = "done", !.status = 200]

(* Json(json!({"success": true, "data": ..})): data is the set of objects
   serialized under "data" *)
Json(r, data) == [Succeeded(r) EXCEPT !.data = data]

Log(r, stmts) == [r EXCEPT !.stmts = @ \o stmts]

(* a panic in a handler: the connection is dropped, no response is written *)
Panicked(r) == [r EXCEPT !.pc = "done", !.panicked = TRUE]

Grant(t, user_id, role) ==
    [token |-> t.token, user_id |-> user_id, role |-> role,
     exp |-> t.claims.exp, iat |-> t.claims.iat]

----------------------------------------------------------------------------
(* Initial state *)

NoTok == [kind |-> "None", token |-> <<>>, claims |-> NoClaims,
          user_id |-> 0, role |-> NoneStr]
NoVres == [done |-> FALSE, at |-> 0, how |-> "none", ok |-> FALSE,
           claims |-> NoClaims, err |-> NoError]

CodecConfigs == {Unset, <<"1", "s">>, <<"1", "m">>, <<>>, <<"5", "x">>}
CodecIds == {-1, 0, 7, 42}
TamperBytes == {".", "_", "0", "A", "G", "!"}

BaseInit ==
    /\ now = 0
    /\ ticks = 0
    /\ tok = NoTok
    /\ presented = <<>>
    /\ vres = NoVres
    /\ users = {}
    /\ nextId = 1
    /\ tickets = {}
    /\ issued = {}
    /\ req = IdleReq

InitCodec == BaseInit /\ expiresIn \in CodecConfigs

----------------------------------------------------------------------------
(* The clock *)

Tick(d) ==
    /\ ticks < MaxTicks
    /\ ~vres.done
    /\ req.pc = "idle"
    /\ now' = now + d
    /\ ticks' = ticks + 1
    /\ UNCHANGED <<expiresIn, codecVars, appVars>>

----------------------------------------------------------------------------
(* Public handlers: handlers/auth.rs.  Each runs from the request to the
   response; the database answers every statement. *)

(* the tail of register_email, login and login_phone: create_token, then
   the response carrying the token; the client keeps the latest token of
   each account *)
IssueFor(r, user, data) ==
    LET t == create_token(user.user_id, user.role, now, expiresIn, Secret)
        called == [r EXCEPT !.tokenCalls = 1]
    IN  IF t.kind = "Panic"
        THEN /\ req' = Panicked(called)
             /\ issued' = issued
        ELSE /\ req' = Json([called EXCEPT !.token = t.token], data)
             /\ issued' = {g \in issued : g.user_id # user.user_id}
                             \cup {Grant(t, user.user_id, user.role)}

register_email(user_data) ==
    /\ req.pc = "idle"
    /\ LET r == [IdleReq EXCEPT !.route = "register", !.input = user_data]
           checked == Log(r, <<Stmt("check_email_exists", "pool")>>)
           c == create(users, nextId, user_data, HashOk(user_data.password), NoFault)
           created == Log(checked, c.stmts \o <<Stmt("find_by_id", "pool")>>)
       IN  IF user_data.first_name = "" \/ user_data.email = NoneStr
                \/ user_data.password = NoneStr
           THEN /\ req' = Failed(r, ValidationError(<<"Please provide name, email and password">>))
                /\ UNCHANGED <<users, nextId, issued>>
           ELSE IF check_email_exists(users, user_data.email)
           THEN /\ req' = Failed(checked, ConflictError(<<"Email already in use">>))
                /\ UNCHANGED <<users, nextId, issued>>
           ELSE /\ nextId <= MaxUsers
                /\ users' = c.users
                /\ nextId' = c.nextId
                /\ \E f \in FetchOne(find_by_id(c.users, c.id)) :
                      IF ~f.ok THEN req' = Failed(created, f.err) /\ issued' = issued
                      ELSE IssueFor([created EXCEPT !.matched = f.row], f.row, {f.row})
    /\ UNCHANGED <<now, ticks, expiresIn, codecVars, tickets>>

(* User::verify_password, then the tail shared by login and login_phone *)
LoginJson(user) == [c \in UserColumns |-> user[c]]

LoginAs(r, f, password) ==
    IF ~f.ok THEN req' = Failed(r, f.err) /\ issued' = issued
    ELSE IF f.row.password = NoPassword
    THEN /\ req' = Failed([r EXCEPT !.matched = f.row],
                          AuthError(<<"No password set for this user">>))
         /\ issued' = issued
    ELSE IF ~verify(password, f.row.password)
    THEN /\ req' = Failed([r EXCEPT !.matched = f.row],
                          AuthError(<<"Invalid credentials">>))
         /\ issued' = issued
    ELSE IssueFor([r EXCEPT !.matched = f.row], f.row, {LoginJson(f.row)})

login(email, password) ==
    /\ req.pc = "idle"
    /\ LET r == [IdleReq EXCEPT !.route = "login", !.input.email = email,
                                !.input.password = password]
       IN  IF email = "" \/ password = ""
           THEN /\ req' = Failed(r, ValidationError(<<"Please provide email and password">>))
                /\ issued' = issued
           ELSE \E f \in FetchOne(find_by_email(users, email)) :
                   LoginAs(Log(r, <<Stmt("find_by_email", "pool")>>), f, password)
    /\ UNCHANGED <<now, ticks, expiresIn, codecVars, users, nextId, tickets>>

login_phone(phone, password) ==
    /\ req.pc = "idle"
    /\ LET r == [IdleReq EXCEPT !.route = "login_phone", !.input.phone = phone,
                                !.input.password = password]
       IN  IF phone = "" \/ password = ""
           THEN /\ req' = Failed(r, ValidationError(<<"Please provide phone and password">>))
                /\ issued' = issued
           ELSE \E f \in FetchOne(find_by_phone(users, phone)) :
                   LoginAs(Log(r, <<Stmt("find_by_phone", "pool")>>), f, password)
    /\ UNCHANGED <<now, ticks, expiresIn, codecVars, users, nextId, tickets>>

----------------------------------------------------------------------------
(* A request to a gated route: require_auth, then the handler.
   require_auth holds no suspension point on shared state, so nothing else
   is interleaved between a request's arrival and its handler. *)

Arrive(route, id, header) ==
    /\ req.pc = "idle"
    /\ id = 0 <=> route \notin IdRoutes
    /\ req' = [IdleReq EXCEPT !.pc = "unauthenticated", !.route = route, !.id = id,
                              !.header = header, !.allowed = RouteGate(route)]
    /\ UNCHANGED <<now, ticks, expiresIn, codecVars, users, nextId, tickets, issued>>

(* require_auth, lines 72-74: the identity extractor; its error is returned *)
AuthenticateFindsUser ==
    /\ req.pc = "unauthenticated"
    /\ LET e == from_request_parts(req.header, Secret, now)
           r == [req EXCEPT !.verifyCalled = e.verifyCalled,
                            !.tokenVerified =
                                e.verifyCalled
                                /\ verify_token(SubSeq(req.header.value, 8,
                                                       Len(req.header.value)),
                                                Secret, now).ok]
       IN  IF e.ok /\ \E u \in users : u.user_id = e.auth_user.user_id
           THEN req' = [r EXCEPT !.pc = "authenticated", !.auth_user = e.auth_user]
           ELSE IF e.ok THEN req' = Failed(r, AuthError(<<"User not found">>))
           ELSE req' = Failed(r, e.err)
    /\ UNCHANGED <<now, ticks, expiresIn, codecVars, users, nextId, tickets, issued>>

Authenticate ==
    /\ req.pc = "unauthenticated"
    /\ LET e == from_request_parts(req.header, Secret, now)
           r == [req EXCEPT !.verifyCalled = e.verifyCalled,
                            !.tokenVerified =
                                e.verifyCalled
                                /\ verify_token(SubSeq(req.header.value, 8,
                                                       Len(req.header.value)),
                                                Secret, now).ok]
       IN  IF e.ok THEN req' = [r EXCEPT !.pc = "authenticated", !.auth_user = e.auth_user]
           ELSE req' = Failed(r, e.err)
    /\ UNCHANGED <<now, ticks, expiresIn, codecVars, users, nextId, tickets, issued>>

(* require_auth, lines 76-88: the role check, then the identity is put in
   the request's extensions *)
AuthorizeAttachesFirst ==
    /\ req.pc = "authenticated"
    /\ IF ~RoleAllowed(req.auth_user.role, req.allowed)
       THEN req' = Failed([req EXCEPT !.ext = req.auth_user],
                          AuthzError(<<"User role '", req.auth_user.role,
                                       "' is not authorized to access this route">>))
       ELSE req' = [req EXCEPT !.pc = "authorized", !.ext = req.auth_user]
    /\ UNCHANGED <<now, ticks, expiresIn, codecVars, users, nextId, tickets, issued>>

Authorize ==
    /\ req.pc = "authenticated"
    /\ IF ~RoleAllowed(req.auth_user.role, req.allowed)
       THEN req' = Failed(req, AuthzError(<<"User role '", req.auth_user.role,
                                            "' is not authorized to access this route">>))
       ELSE req' = [req EXCEPT !.pc = "authorized", !.ext = req.auth_user]
    /\ UNCHANGED <<now, ticks, expiresIn, codecVars, users, nextId, tickets, issued>>

(* get_me: the AuthUser argument runs the extractor again *)
get_me(r) ==
    LET e == from_request_parts(r.header, Secret, now)
        looked == Log(r, <<Stmt("find_by_id", "pool")>>)
    IN  /\ IF ~e.ok THEN req' = Failed(r, e.err)
           ELSE \E f \in FetchOne(find_by_id(users, e.auth_user.user_id)) :
                   IF ~f.ok THEN req' = Failed(looked, f.err)
                   ELSE req' = Json([looked EXCEPT !.matched = f.row], {f.row})
        /\ UNCHANGED <<users, nextId, tickets>>

logout(r) ==
    /\ req' = Succeeded(r)
    /\ UNCHANGED <<users, nextId, tickets>>

(* handlers/user.rs *)
get_users(r, page) ==
    /\ IF page < 1
       THEN req' = Failed(r, ValidationError(<<"Page and limit must be positive">>))
       ELSE req' = Json(Log(r, <<Stmt("find_all", "pool"), Stmt("count_users", "pool")>>),
                        {SelectUserColumns(u) : u \in users})
    /\ UNCHANGED <<users, nextId, tickets>>

get_user(r) ==
    /\ \E f \in FetchOne(find_by_id(users, r.id)) :
          LET looked == Log(r, <<Stmt("find_by_id", "pool")>>)
          IN  IF ~f.ok THEN req' = Failed(looked, f.err)
              ELSE req' = Json([looked EXCEPT !.matched = f.row], {f.row})
    /\ UNCHANGED <<users, nextId, tickets>>

create_user(r0, user_data, h, fault) ==
    LET r == [r0 EXCEPT !.input = user_data, !.hashed = h, !.fault = fault]
        checked == Log(r, <<Stmt("check_email_exists", "pool")>>
                          \o (IF user_data.passport_number # NoneStr
                              THEN <<Stmt("check_passport_exists", "pool")>> ELSE <<>>))
        c == create(users, nextId, user_data, h, fault)
        created == Log(checked, c.stmts)
    IN  /\ IF user_data.first_name = "" \/ user_data.email = NoneStr
                \/ user_data.password = NoneStr
           THEN /\ req' = Failed(r, ValidationError(<<"Please provide name, email and password">>))
                /\ UNCHANGED <<users, nextId>>
           ELSE IF check_email_exists(users, user_data.email)
           THEN /\ req' = Failed(Log(r, <<Stmt("check_email_exists", "pool")>>),
                                 ConflictError(<<"Email already in use">>))
                /\ UNCHANGED <<users, nextId>>
           ELSE IF user_data.passport_number # NoneStr
                   /\ check_passport_exists(users, user_data.passport_number)
           THEN /\ req' = Failed(checked, ConflictError(<<"Passport number already in use">>))
                /\ UNCHANGED <<users, nextId>>
           ELSE IF ~c.ok
           THEN /\ req' = Failed(created, c.err)
                /\ UNCHANGED <<users, nextId>>
           ELSE /\ nextId <= MaxUsers
                /\ users' = c.users
                /\ nextId' = c.nextId
                /\ \E f \in FetchOne(find_by_id(c.users, c.id)) :
                      LET looked == Log(created, <<Stmt("find_by_id", "pool")>>)
                      IN  IF ~f.ok THEN req' = Failed(looked, f.err)
                          ELSE req' = Json([looked EXCEPT !.matched = f.row], {f.row})
        /\ UNCHANGED tickets

update_user(r0, user_data, h, fault) ==
    LET r == [r0 EXCEPT !.update = user_data, !.hashed = h, !.fault = fault]
        found == Log(r, <<Stmt("find_by_id", "pool")>>)
        checked == Log(found,
                       (IF user_data.email # NoneStr
                        THEN <<Stmt("check_email_exists", "pool")>> ELSE <<>>)
                       \o (IF user_data.passport_number # NoneStr
                           THEN <<Stmt("check_passport_exists", "pool")>> ELSE <<>>))
        u == update(users, r.id, user_data, h, fault)
        updated == Log(checked, u.stmts)
    IN  /\ \E f \in FetchOne(find_by_id(users, r.id)) :
              IF ~f.ok
              THEN req' = Failed(found, f.err) /\ users' = users
              ELSE IF user_data.email # NoneStr
                      /\ check_email_exists_excluding(users, user_data.email, r.id)
              THEN /\ req' = Failed(Log(found, <<Stmt("check_email_exists", "pool")>>),
                                    ConflictError(<<"Email already in use">>))
                   /\ users' = users
              ELSE IF user_data.passport_number # NoneStr
                      /\ check_passport_exists_excluding(users, user_data.passport_number,
                                                         r.id)
              THEN /\ req' = Failed(checked, ConflictError(<<"Passport number already in use">>))
                   /\ users' = users
              ELSE IF ~u.ok
              THEN req' = Failed(updated, u.err) /\ users' = users
              ELSE /\ users' = u.users
                   /\ \E g \in FetchOne(find_by_id(u.users, r.id)) :
                         LET looked == Log(updated, <<Stmt("find_by_id", "pool")>>)
                         IN  IF ~g.ok THEN req' = Failed(looked, g.err)
                             ELSE req' = Json([looked EXCEPT !.matched = g.row], {g.row})
        /\ UNCHANGED <<nextId, tickets>>

(* delete_user *)
delete_user(r) ==
    /\ \E f \in FetchOne(find_by_id(users, r.id)) :
          LET found == Log(r, <<Stmt("find_by_id", "pool")>>)
              d == delete(users, tickets, r.id)
          IN  IF ~f.ok
              THEN req' = Failed(found, f.err) /\ users' = users
              ELSE IF ~d.ok
              THEN req' = Failed(Log(found, d.stmts), d.err) /\ users' = users
              ELSE /\ users' = d.users
                   /\ req' = Succeeded(Log(found, d.stmts))
    /\ UNCHANGED <<nextId, tickets>>

(* the bodies and the database answers of the user routes *)
CreateBodies ==
    {Jo, [Jo EXCEPT !.email = "al@x.com"], [Jo EXCEPT !.password = NoneStr]}
UpdateBodies ==
    {NoUpdate, [NoUpdate EXCEPT !.email = "al@x.com"], [NoUpdate EXCEPT !.password = "new"]}
Faults == {NoFault, SqlxDatabase("1062"), SqlxDatabase("1452"), SqlxDatabase("1205"),
           SqlxPoolTimedOut}

(* require_auth, line 90: next.run(req); the handler's extractors read the
   path, the query and the body *)
RunHandler ==
    /\ req.pc = "authorized"
    /\ LET r == [req EXCEPT !.handlerRan = TRUE]
       IN  CASE req.route = "me" -> get_me(r)
             [] req.route = "logout" -> logout(r)
             [] req.route = "users_delete" -> delete_user(r)
             [] req.route = "staff" ->
                   req' = Succeeded(r) /\ UNCHANGED <<users, nextId, tickets>>
             [] req.route = "users_list" -> \E page \in {0, 1} : get_users(r, page)
             [] req.route = "users_get" -> get_user(r)
             [] req.route = "users_create" ->
                   \E user_data \in CreateBodies, fault \in Faults :
                      \E h \in HashOutcomes(user_data.password) :
                         create_user(r, user_data, h, fault)
             [] req.route = "users_update" ->
                   \E user_data \in UpdateBodies, fault \in Faults :
                      \E h \in HashOutcomes(user_data.password) :
                         update_user(r, user_data, h, fault)
    /\ UNCHANGED <<now, ticks, expiresIn, codecVars, issued>>

(* the response has been sent; the next request is taken *)
Respond ==
    /\ req.pc = "done"
    /\ req' = IdleReq
    /\ UNCHANGED <<now, ticks, expiresIn, codecVars, users, nextId, tickets, issued>>

----------------------------------------------------------------------------
(* The codec on its own: create_token once, then, at some later time,
   verify_token once: on the token as issued, on a copy with one byte
   replaced, or on the same claims signed under another secret. *)

CodecIssue(user_id, role) ==
    /\ tok.kind = "None"
    /\ LET t == create_token(user_id, role, now, expiresIn, Secret)
       IN  tok' = [kind |-> t.kind, token |-> t.token, claims |-> t.claims,
                   user_id |-> user_id, role |-> role]
    /\ UNCHANGED <<now, ticks, expiresIn, presented, vres, appVars>>

Verified(s, how) ==
    LET r == verify_token(s, Secret, now)
    IN  [done |-> TRUE, at |-> now, how |-> how, ok |-> r.ok,
         claims |-> r.claims, err |-> r.err]

CodecVerify ==
    /\ tok.kind = "Ok"
    /\ ~vres.done
    /\ presented' = tok.token
    /\ vres' = Verified(tok.token, "issued")
    /\ UNCHANGED <<now, ticks, expiresIn, tok, appVars>>

CodecVerifyTampered(i, b) ==
    /\ tok.kind = "Ok"
    /\ ~vres.done
    /\ i \in 1..Len(tok.token)
    /\ b # tok.token[i]
    /\ LET s == [tok.token EXCEPT ![i] = b]
       IN  /\ presented' = s
           /\ vres' = Verified(s, "tampered")
    /\ UNCHANGED <<now, ticks, expiresIn, tok, appVars>>

CodecVerifyOtherSecret ==
    /\ tok.kind = "Ok"
    /\ ~vres.done
    /\ LET s == encode(tok.claims, OtherSecret)
       IN  /\ presented' = s
           /\ vres' = Verified(s, "other secret")
    /\ UNCHANGED <<now, ticks, expiresIn, tok, appVars>>

NextCodec ==
    \/ \E d \in TickSteps : Tick(d)
    \/ \E user_id \in CodecIds, role \in UserRole : CodecIssue(user_id, role)
    \/ CodecVerify
    \/ \E i \in 1..Len(tok.token), b \in TamperBytes : CodecVerifyTampered(i, b)
    \/ CodecVerifyOtherSecret

SpecCodec == InitCodec /\ [][NextCodec]_vars

----------------------------------------------------------------------------
(* The service *)

AppConfigs == {<<"1", "s">>, <<>>}

Init == BaseInit /\ expiresIn \in AppConfigs

RegisterBodies ==
    {Jo,
     [Jo EXCEPT !.first_name = "Al", !.email = "al@x.com", !.role = Admin,
                !.contact_number = "555"],
     [Jo EXCEPT !.first_name = "Wo", !.role = Worker],
     [Jo EXCEPT !.first_name = ""],
     [Jo EXCEPT !.email = NoneStr],
     [Jo EXCEPT !.password = NoneStr]}
Emails == {"", "jo@x.com", "al@x.com"}
Phones == {"", "555"}
Passwords == {"", "pw", "bad"}

(* Tokens not issued by this run of the process: one signed with its
   secret whose subject is no i32, one signed with another secret, and one
   signed with its secret for subject 7, which is only ever sent behind a
   wrong prefix. *)
ForeignClaims(sub) == [sub |-> sub, role |-> Admin, exp |-> ThirtyDays, iat |-> 0]
ForeignTokens ==
    {encode(ForeignClaims(<<"a">>), Secret),
     encode(ForeignClaims(<<"7">>), OtherSecret)}
ValidToken == encode(ForeignClaims(<<"7">>), Secret)

Headers ==
    {NoHeader, HeaderOf(Bearer \o ValidToken \o <<"0x80">>)}
    \cup {HeaderOf(Bearer \o t) : t \in ForeignTokens}
    \cup {HeaderOf(prefix \o ValidToken) : prefix \in {BearerLower, BearerNoSpace}}
    \cup {HeaderOf(Bearer \o g.token) : g \in issued}

Next ==
    \/ \E d \in TickSteps : Tick(d)
    \/ \E user_data \in RegisterBodies : register_email(user_data)
    \/ \E email \in Emails, password \in Passwords : login(email, password)
    \/ \E phone \in Phones, password \in Passwords : login_phone(phone, password)
    \/ \E route \in GatedRoutes, id \in 0..MaxUsers, header \in Headers :
          Arrive(route, id, header)
    \/ Authenticate
    \/ Authorize
    \/ RunHandler
    \/ Respond

Spec == Init /\ [][Next]_vars

----------------------------------------------------------------------------
(* The user routes.  The process starts on a database that already holds
   the administrator Al, who holds a token issued before the restart. *)

Al == [Jo EXCEPT !.first_name = "Al", !.last_name = "Ada", !.email = "al@x.com",
                 !.role = Admin, !.contact_number = "555"]
AlToken == create_token(1, Admin, 0, Unset, Secret)

InitUsers ==
    /\ now = 0
    /\ ticks = 0
    /\ expiresIn = Unset
    /\ tok = NoTok
    /\ presented = <<>>
    /\ vres = NoVres
    /\ users = {NewRow(1, Al)}
    /\ nextId = 2
    /\ tickets = {}
    /\ issued = {Grant(AlToken, 1, Admin)}
    /\ req = IdleReq

(* a ticket is booked for a user: a row of table tickets, written by the
   ticketing side of the database *)
TicketBooked(id) ==
    /\ req.pc = "idle"
    /\ \E u \in users : u.user_id = id
    /\ id \notin tickets
    /\ tickets' = tickets \cup {id}
    /\ UNCHANGED <<now, ticks, expiresIn, codecVars, users, nextId, issued, req>>

UsersRoutes == CrudRoutes \cup UserRoutes \cup ProtectedRoutes
IssuedHeaders == {HeaderOf(Bearer \o g.token) : g \in issued}
(* no header, and an Admin token signed with another secret *)
UsersHeaders ==
    IssuedHeaders
    \cup {NoHeader, HeaderOf(Bearer \o encode(ForeignClaims(<<"1">>), OtherSecret))}

NextUsers ==
    \/ \E id \in 1..MaxUsers : TicketBooked(id)
    \/ register_email(Jo)
    \/ \E email \in {"jo@x.com", "al@x.com"} : login(email, "pw")
    \/ login_phone("555", "pw")
    \/ \E route \in UsersRoutes, id \in 0..MaxUsers, header \in UsersHeaders :
          Arrive(route, id, header)
    \/ Authenticate
    \/ Authorize
    \/ RunHandler
    \/ Respond

SpecUsers == InitUsers /\ [][NextUsers]_vars

----------------------------------------------------------------------------
(* User::create and User::update on their own: one call on a table of two
   users, for every set of present fields, every answer of the hashing
   primitive and of the database. *)

BuilderTable == {NewRow(1, Al), NewRow(2, Jo)}

InitBuilder ==
    /\ now = 0
    /\ ticks = 0
    /\ expiresIn = Unset
    /\ tok = NoTok
    /\ presented = <<>>
    /\ vres = NoVres
    /\ users = BuilderTable
    /\ nextId = 3
    /\ tickets = {}
    /\ issued = {}
    /\ req = IdleReq

NewValues ==
    [email |-> "nu@x.com", password |-> "nupw", first_name |-> "Nu", last_name |-> "Nam",
     passport_number |-> "P1", nationality |-> "NZ", date_of_birth |-> "2000-01-01",
     contact_number |-> "777", gender |-> "x"]

AllUpdates ==
    {[c \in DOMAIN NoUpdate |-> IF c \in present THEN NewValues[c] ELSE NoneStr] :
        present \in SUBSET DOMAIN NoUpdate}

AllCreates ==
    {[Jo EXCEPT !.email = "nu@x.com", !.password = password, !.role = role,
                !.passport_number = passport] :
        password \in {NoneStr, "nupw"}, role \in {NoneStr, Worker},
        passport \in {NoneStr, "P1"}}

(* the outcome of a call: Ok(val) or Err(err), and the statements sent *)
Returned(r, err, val, stmts) ==
    [r EXCEPT !.pc = "done", !.err = err, !.val = val, !.stmts = stmts]

BuilderFaults == {NoFault, SqlxPoolTimedOut}

UserUpdate(id, user_data, h, fault) ==
    /\ req.pc = "idle"
    /\ users = BuilderTable
    /\ LET res == update(users, id, user_data, h, fault)
       IN  /\ req' = Returned([IdleReq EXCEPT !.route = "User::update", !.id = id,
                                              !.update = user_data, !.hashed = h,
                                              !.fault = fault],
                              res.err, res.val, res.stmts)
           /\ users' = res.users
    /\ UNCHANGED <<now, ticks, expiresIn, codecVars, nextId, tickets, issued>>

UserCreate(user_data, h, fault) ==
    /\ req.pc = "idle"
    /\ users = BuilderTable
    /\ LET res == create(users, nextId, user_data, h, fault)
       IN  /\ req' = Returned([IdleReq EXCEPT !.route = "User::create", !.id = res.id,
                                              !.input = user_data, !.hashed = h,
                                              !.fault = fault],
                              res.err, res.ok, res.stmts)
           /\ users' = res.users
           /\ nextId' = res.nextId
    /\ UNCHANGED <<now, ticks, expiresIn, codecVars, tickets, issued>>

NextBuilder ==
    \/ \E id \in 1..(MaxUsers + 1), user_data \in AllUpdates, fault \in BuilderFaults :
          \E h \in HashOutcomes(user_data.password) : UserUpdate(id, user_data, h, fault)
    \/ \E user_data \in AllCreates, fault \in BuilderFaults :
          \E h \in HashOutcomes(user_data.password) : UserCreate(user_data, h, fault)
    \/ Respond

SpecBuilder == InitBuilder /\ [][NextBuilder]_vars

----------------------------------------------------------------------------
(* Requests served concurrently: register_email, create_user and
   update_user each await the database between the email check and the
   write, and the statements of another request may run in between.  Under
   this specification req holds one request per racer. *)

Racers == {1, 2}
RaceRoutes == {"register", "users_create", "users_update"}
RaceEmails == {"nu@x.com", "al@x.com"}

(* UNIQUE KEY on users.email: an INSERT or UPDATE that would give a second
   row the email is refused with MySQL error 1062 *)
UniqueEmailIndex(us, id, email) ==
    IF email # NoneStr /\ \E u \in us : u.user_id # id /\ u.email = email
    THEN SqlxDatabase("1062")
    ELSE NoFault

InitRace ==
    /\ now = 0
    /\ ticks = 0
    /\ expiresIn = Unset
    /\ tok = NoTok
    /\ presented = <<>>
    /\ vres = NoVres
    /\ users = BuilderTable
    /\ nextId = 3
    /\ tickets = {}
    /\ issued = {}
    /\ req = [p \in Racers |-> IdleReq]

RaceUnchanged == <<now, ticks, expiresIn, codecVars, tickets>>

(* the request is read: Json(user_data), Path(id) *)
RaceArrive(p, route, email, id) ==
    /\ req[p].pc = "idle"
    /\ id = 0 <=> route # "users_update"
    /\ req' = [req EXCEPT ![p] =
                  [IdleReq EXCEPT !.pc = "arrived", !.route = route, !.id = id,
                                  !.input = [Jo EXCEPT !.first_name = "Nu", !.email = email],
                                  !.update = [NoUpdate EXCEPT !.email = email]]]
    /\ UNCHANGED <<RaceUnchanged, users, nextId, issued>>

(* up to the await of check_email_exists: handlers/auth.rs 21-32,
   handlers/user.rs 66-77 and 105-112 *)
RaceCheck(p) ==
    /\ req[p].pc = "arrived"
    /\ LET r == req[p]
           checked == Log(r, <<Stmt("check_email_exists", "pool")>>)
           found == Log(r, <<Stmt("find_by_id", "pool")>>)
           inUse == ConflictError(<<"Email already in use">>)
       IN  IF r.route = "users_update"
           THEN \E f \in FetchOne(find_by_id(users, r.id)) :
                   IF ~f.ok THEN req' = [req EXCEPT ![p] = Failed(found, f.err)]
                   ELSE IF check_email_exists_excluding(users, r.update.email, r.id)
                   THEN req' = [req EXCEPT ![p] =
                                   Failed(Log(found, <<Stmt("check_email_exists", "pool")>>),
                                          inUse)]
                   ELSE req' = [req EXCEPT ![p] =
                                   [Log(found, <<Stmt("check_email_exists", "pool")>>)
                                       EXCEPT !.pc = "checked"]]
           ELSE IF check_email_exists(users, r.input.email)
           THEN req' = [req EXCEPT ![p] = Failed(checked, inUse)]
           ELSE req' = [req EXCEPT ![p] = [checked EXCEPT !.pc = "checked"]]
    /\ UNCHANGED <<RaceUnchanged, users, nextId, issued>>

(* from User::create or User::update to the response: the INSERT or UPDATE
   is one statement, decided by the table as it is when it runs *)
RaceWrite(p) ==
    /\ req[p].pc = "checked"
    /\ LET r0 == [req[p] EXCEPT !.handlerRan = TRUE]
       IN  IF r0.route = "users_update"
           THEN LET fault == UniqueEmailIndex(users, r0.id, r0.update.email)
                    r == [r0 EXCEPT !.fault = fault]
                    u == update(users, r.id, r.update, HashOk(""), fault)
                    updated == Log(r, u.stmts)
                IN  /\ users' = u.users
                    /\ UNCHANGED <<nextId, issued>>
                    /\ IF ~u.ok THEN req' = [req EXCEPT ![p] = Failed(updated, u.err)]
                       ELSE \E g \in FetchOne(find_by_id(u.users, r.id)) :
                               LET looked == Log(updated, <<Stmt("find_by_id", "pool")>>)
                               IN  IF ~g.ok
                                   THEN req' = [req EXCEPT ![p] = Failed(looked, g.err)]
                                   ELSE req' = [req EXCEPT ![p] = Json(looked, {g.row})]
           ELSE LET fault == UniqueEmailIndex(users, 0, r0.input.email)
                    r == [r0 EXCEPT !.fault = fault]
                    c == create(users, nextId, r.input, HashOk(r.input.password), fault)
                    created == Log(r, c.stmts)
                IN  /\ users' = c.users
                    /\ nextId' = c.nextId
                    /\ IF ~c.ok
                       THEN /\ req' = [req EXCEPT ![p] = Failed(created, c.err)]
                            /\ issued' = issued
                       ELSE \E f \in FetchOne(find_by_id(c.users, c.id)) :
                               LET looked == Log(created, <<Stmt("find_by_id", "pool")>>)
                                   t == create_token(f.row.user_id, f.row.role, now,
                                                     expiresIn, Secret)
                               IN  IF ~f.ok
                                   THEN /\ req' = [req EXCEPT ![p] = Failed(looked, f.err)]
                                        /\ issued' = issued
                                   ELSE IF r.route = "register"
                                   THEN /\ req' = [req EXCEPT ![p] =
                                                      Json([looked EXCEPT !.token = t.token,
                                                                          !.tokenCalls = 1],
                                                           {f.row})]
                                        /\ issued' = issued \cup
                                              {Grant(t, f.row.user_id, f.row.role)}
                                   ELSE /\ req' = [req EXCEPT ![p] = Json(looked, {f.row})]
                                        /\ issued' = issued
    /\ UNCHANGED RaceUnchanged

NextRace ==
    \/ \E p \in Racers, route \in RaceRoutes, email \in RaceEmails,
             id \in 0..(MaxUsers + 1) :
          RaceArrive(p, route, email, id)
    \/ \E p \in Racers : RaceCheck(p)
    \/ \E p \in Racers : RaceWrite(p)

SpecRace == InitRace /\ [][NextRace]_vars

----------------------------------------------------------------------------
(* Claims about the token codec, checked under SpecCodec *)

DotCount(s) == Cardinality({i \in 1..Len(s) : s[i] = "."})

VerifiedIssued == vres.done /\ vres.how = "issued"
VerifiedTampered == vres.done /\ vres.how = "tampered"

(* C1: verifying a token produced by create_token(subject_id, role) under
   the same secret, at a time not after its expiry, succeeds and yields
   claims whose subject parses back to subject_id and whose role is role. *)
C1_RoundTrip ==
    (VerifiedIssued /\ vres.at <= tok.claims.exp) =>
        /\ vres.ok
        /\ ParseI32(vres.claims.sub) = [ok |-> TRUE, val |-> tok.user_id]
        /\ vres.claims.role = tok.role

C1_Witness ==
    /\ VerifiedIssued
    /\ vres.at = tok.claims.exp
    /\ tok.user_id < 0
    /\ vres.ok

(* C2 as stated: no leeway; a correctly signed token verifies iff
   now <= expires_at, and is otherwise rejected as expired. *)
C2_NoLeeway ==
    VerifiedIssued =>
        /\ vres.ok <=> vres.at <= tok.claims.exp
        /\ ~vres.ok => vres.err = AuthError(<<"Token expired">>)

(* C2 amended: verification allows 60 seconds of leeway; a correctly signed
   token verifies iff now <= expires_at + 60, and is otherwise rejected with
   the expired-kind AuthError. *)
C2_SixtySecondLeeway ==
    VerifiedIssued =>
        /\ vres.ok <=> vres.at <= tok.claims.exp + 60
        /\ ~vres.ok => vres.err = AuthError(<<"Token expired">>)

C2_Witness ==
    /\ VerifiedIssued
    /\ vres.at = tok.claims.exp + 61
    /\ ~vres.ok

(* C3 as stated: every single-byte modification of an issued token fails
   verification with AuthError("Invalid token"). *)
C3_AlwaysInvalidToken ==
    VerifiedTampered => ~vres.ok /\ vres.err = AuthError(<<"Invalid token">>)

(* C3 amended: every single-byte modification of an issued token fails
   verification with an AuthError; the message is "Invalid token" exactly
   when fewer than two "." separators are left, and it is "Token validation
   failed: InvalidSignature" when the header and the separators are intact
   and only the signature no longer matches. *)
C3_TamperedNeverVerifies ==
    VerifiedTampered =>
        /\ ~vres.ok
        /\ vres.err.kind = "AuthError"
        /\ vres.err.msg = <<"Invalid token">> <=> DotCount(presented) < 2
        /\ (DotCount(presented) = 2 /\ SubSeq(presented, 1, 2) = SubSeq(tok.token, 1, 2))
              => vres.err.msg = <<"Token validation failed: ", "InvalidSignature">>

C3_Witness ==
    /\ VerifiedTampered
    /\ presented[Len(presented)] # tok.token[Len(tok.token)]
    /\ vres.err = AuthError(<<"Token validation failed: ", "InvalidSignature">>)

----------------------------------------------------------------------------
(* Claims about the extractor, the gate and the handlers, checked under Spec *)

Gated == req.route \in GatedRoutes
PastExtractor == Gated /\ req.pc \in {"authenticated", "authorized", "done"}
Established == req.auth_user # NoAuthUser
Approved == req.pc = "authorized" \/ req.handlerRan
RefusedAtGate == Gated /\ req.pc = "done" /\ ~req.handlerRan
MissingHeader == AuthError(<<"Missing or invalid Authorization header">>)
BearerPrefixed ==
    /\ req.header.present
    /\ Len(req.header.value) >= 7
    /\ SubSeq(req.header.value, 1, 7) = <<"B", "e", "a", "r", "e", "r", " ">>
SubjectOf(token) == SplitOn(SplitOn(token, ".")[2], "_")[1]

(* C4: the extractor yields an identity only when the header is present,
   begins with "Bearer ", the rest verifies and its subject parses as an
   integer; an absent header or another prefix fails with "Missing or
   invalid Authorization header" without verify_token being called; a
   verified token whose subject is no integer fails with "Invalid user ID
   in token". *)
C4_Extractor ==
    PastExtractor =>
        /\ Established =>
              /\ BearerPrefixed
              /\ req.tokenVerified
              /\ ParseI32(SubjectOf(SubSeq(req.header.value, 8, Len(req.header.value)))).ok
        /\ ~BearerPrefixed =>
              RefusedAtGate /\ req.err = MissingHeader /\ ~req.verifyCalled
        /\ (req.tokenVerified /\ ~Established) =>
              RefusedAtGate /\ req.err = AuthError(<<"Invalid user ID in token">>)

C4_Witness ==
    /\ RefusedAtGate
    /\ req.header.present
    /\ req.header.value # <<>>
    /\ ~BearerPrefixed
    /\ req.err = MissingHeader

GateErrors ==
    /\ (RefusedAtGate /\ ~Established) =>
          /\ req.err.kind = "AuthError"
          /\ req.status = 401
          /\ req.err = from_request_parts(req.header, Secret, now).err
    /\ (RefusedAtGate /\ Established) =>
          /\ req.auth_user.role \notin req.allowed
          /\ req.err.kind = "AuthzError"
          /\ req.err.msg[2] = req.auth_user.role
          /\ req.status = 403
    /\ (PastExtractor /\ Established /\ req.auth_user.role \notin req.allowed) =>
          req.pc # "authorized" /\ (req.pc = "done" => RefusedAtGate)

(* C5 as stated: an extractor failure leaves the gate unchanged as an
   AuthError (401), a role outside the allowed set fails with an AuthzError
   naming the role (403), and an AuthError is never produced for a request
   whose token verified. *)
C5_NoAuthErrorOnceVerified ==
    /\ GateErrors
    /\ (RefusedAtGate /\ req.tokenVerified) => req.err.kind # "AuthError"

(* C5 amended: as stated, except that an AuthError is never produced for a
   request whose identity was established, that is, whose token verified
   and whose subject parsed as an integer. *)
C5_ErrorKinds ==
    /\ GateErrors
    /\ (RefusedAtGate /\ req.err.kind = "AuthzError") => Established
    /\ (RefusedAtGate /\ Established) => req.err.kind # "AuthError"

C5_Witness ==
    /\ RefusedAtGate
    /\ Established
    /\ req.status = 403
    /\ req.route = "staff"

(* C6: the gate approves iff the identity's role is in the route's allowed
   set: the admin-only gate approves Admin alone, the staff gate Admin and
   Worker, the any-authenticated gate all three roles. *)
C6_SetMembership ==
    (PastExtractor /\ Established /\ req.pc # "authenticated") =>
        /\ Approved <=> req.auth_user.role \in req.allowed
        /\ req.route \in {"users_delete"} => (Approved <=> req.auth_user.role = Admin)
        /\ req.route = "staff" => (Approved <=> req.auth_user.role \in {Admin, Worker})
        /\ req.route \in {"me", "logout"} => Approved

C6_Witness ==
    /\ RefusedAtGate
    /\ req.route = "users_delete"
    /\ req.auth_user.role = Worker
    /\ req.err.kind = "AuthzError"

(* C7: a request moves only Unauthenticated -> Authenticated -> Authorized;
   the handler runs only from Authorized, with the token verified, the role
   allowed and the identity attached; a request that fails a transition
   ends with an error, no handler run and no identity attached. *)
C7_GateOrder ==
    [][ /\ req'.pc # req.pc =>
              <<req.pc, req'.pc>> \in
                  {<<"idle", "unauthenticated">>, <<"idle", "done">>,
                   <<"unauthenticated", "authenticated">>, <<"unauthenticated", "done">>,
                   <<"authenticated", "authorized">>, <<"authenticated", "done">>,
                   <<"authorized", "done">>, <<"done", "idle">>}
        /\ (req'.handlerRan /\ ~req.handlerRan) =>
              /\ req.pc = "authorized"
              /\ req.tokenVerified
              /\ req.auth_user # NoAuthUser
              /\ req.auth_user.role \in req.allowed
              /\ req.ext = req.auth_user
        /\ (req'.pc = "authorized") => req'.tokenVerified /\ req'.auth_user # NoAuthUser
        /\ (req.pc \in {"unauthenticated", "authenticated"} /\ req'.pc = "done") =>
              /\ req'.err.kind \in {"AuthError", "AuthzError"}
              /\ ~req'.handlerRan
              /\ req'.ext = NoAuthUser
        /\ (req.pc = "unauthenticated") => req.ext = NoAuthUser /\ req.auth_user = NoAuthUser
      ]_vars

C7_Witness ==
    /\ req.pc = "done"
    /\ req.handlerRan
    /\ req.route = "users_delete"
    /\ req.status = 200

(* C8: a request carrying an issued token and made at or before its
   expires_at is given the identity fixed at issuance and is approved
   whenever that role is allowed, whatever logout calls or deletions came
   in between. *)
C8_OnlyExpiryInvalidates ==
    \A g \in issued :
        (PastExtractor /\ req.header = HeaderOf(Bearer \o g.token) /\ now <= g.exp) =>
            /\ req.auth_user = [user_id |-> g.user_id, role |-> g.role]
            /\ req.pc # "authenticated" =>
                  (Approved <=> g.role \in RouteGate(req.route))

C8_Witness ==
    \E g \in issued :
        /\ req.pc = "done"
        /\ req.handlerRan
        /\ req.header = HeaderOf(Bearer \o g.token)
        /\ now = g.exp
        /\ \A u \in users : u.user_id # g.user_id

GateStep == Gated /\ req.pc \in {"unauthenticated", "authenticated"}
BearerToken(header) ==
    IF /\ header.present
       /\ ToStrOk(header.value)
       /\ Len(header.value) >= 7
       /\ SubSeq(header.value, 1, 7) = <<"B", "e", "a", "r", "e", "r", " ">>
    THEN <<SubSeq(header.value, 8, Len(header.value))>>
    ELSE <<>>
Identified(header, secret, t) ==
    /\ BearerToken(header) # <<>>
    /\ LET v == verify_token(BearerToken(header)[1], secret, t)
       IN  v.ok /\ ParseI32(v.claims.sub).ok
Decision(header, secret, t, allowed) ==
    IF BearerToken(header) = <<>> THEN 401
    ELSE LET v == verify_token(BearerToken(header)[1], secret, t)
         IN  IF ~v.ok THEN 401
             ELSE IF ~ParseI32(v.claims.sub).ok THEN 401
             ELSE IF v.claims.role \notin allowed THEN 403
             ELSE 200

(* C19: the decision of the gate for a request is determined by its
   Authorization header, the current time, the signing secret and the
   allowed roles of the route alone, whatever requests were served before;
   the gate sends no statement to the database and changes no table. *)
C19_GateIsStateless ==
    [][GateStep =>
          /\ <<users, nextId, tickets>>' = <<users, nextId, tickets>>
          /\ req'.stmts = <<>>
          /\ req.pc = "unauthenticated" =>
                /\ req'.pc = "authenticated" <=> Identified(req.header, Secret, now)
                /\ req'.pc # "authenticated" =>
                      req'.pc = "done" /\ ~req'.handlerRan /\ req'.status = 401
          /\ req.pc = "authenticated" =>
                /\ req'.pc = "authorized" <=>
                      Decision(req.header, Secret, now, req.allowed) = 200
                /\ req'.pc # "authorized" =>
                      /\ req'.pc = "done" /\ ~req'.handlerRan
                      /\ req'.status = Decision(req.header, Secret, now, req.allowed)
    ]_vars

C19_Witness ==
    /\ req.pc = "authorized"
    /\ req.route = "me"
    /\ req.stmts = <<>>
    /\ Decision(req.header, Secret, now, req.allowed) = 200
    /\ \A u \in users : u.user_id # req.auth_user.user_id
    /\ \E g \in issued : g.user_id = req.auth_user.user_id

(* C9: a login, by email or by phone, whose password does not match the
   stored hash of the user found fails with AuthError("Invalid
   credentials"), without create_token being called and without a token. *)
C9_WrongPassword ==
    (/\ req.pc = "done"
     /\ req.route \in {"login", "login_phone"}
     /\ req.matched # NoRow
     /\ req.matched.password # NoPassword
     /\ req.matched.password # <<"$2b$", req.input.password>>) =>
        /\ req.err = AuthError(<<"Invalid credentials">>)
        /\ req.status = 401
        /\ req.tokenCalls = 0
        /\ req.token = <<>>

C9_Witness ==
    /\ req.pc = "done"
    /\ req.route = "login"
    /\ req.matched.email = req.input.email
    /\ req.err = AuthError(<<"Invalid credentials">>)

RegistersNewEmail ==
    /\ req.pc = "idle"
    /\ req'.pc = "done"
    /\ req'.route = "register"
    /\ req'.input.first_name # ""
    /\ req'.input.email # NoneStr
    /\ req'.input.password # NoneStr
    /\ req'.input.role = NoneStr
    /\ \A u \in users : u.email # req'.input.email

RegisteredAsUser ==
    /\ req'.status = 200
    /\ \E u \in users' \ users :
          /\ users' = users \cup {u}
          /\ verify_token(req'.token, Secret, now).ok
          /\ verify_token(req'.token, Secret, now).claims.role = User
          /\ ParseI32(verify_token(req'.token, Secret, now).claims.sub)
                = [ok |-> TRUE, val |-> u.user_id]

(* C10: registering with first_name, email and password and no role, the
   email not in use, succeeds, creates exactly one user and returns a token
   whose role is User and whose subject is the new user's id. *)
C10_RegisterReturnsUserToken ==
    [][RegistersNewEmail => RegisteredAsUser]_vars

(* C21: every token returned by register_email carries role User,
   whatever fields the request body contains. *)
C21_RegisterTokenIsUser ==
    (req.pc = "done" /\ req.route = "register" /\ req.token # <<>>) =>
        /\ verify_token(req.token, Secret, now).ok
        /\ verify_token(req.token, Secret, now).claims.role = User

----------------------------------------------------------------------------
(* Claims about the expiration window, checked under SpecCodec *)

WellFormedWindow(cfg) ==
    /\ Len(cfg) >= 2
    /\ AllDigits(SubSeq(cfg, 1, Len(cfg) - 1))
    /\ cfg[Len(cfg)] \in {"s", "m", "h", "d"}

ClaimedWindow(cfg) ==
    IF cfg # Unset /\ WellFormedWindow(cfg)
    THEN FromDec(SubSeq(cfg, 1, Len(cfg) - 1))
            * (CASE cfg[Len(cfg)] = "s" -> 1
                 [] cfg[Len(cfg)] = "m" -> 60
                 [] cfg[Len(cfg)] = "h" -> 3600
                 [] cfg[Len(cfg)] = "d" -> 86400)
    ELSE 2592000

IssuanceStep == tok.kind = "None" /\ tok'.kind # "None"

(* C12: every call of create_token succeeds with issued_at = now and
   expires_at = issued_at + window, the window being the configured
   integer-and-unit value, and 30 days for every configuration that is
   missing or not of that form, the empty string included. *)
C12_WindowOrThirtyDays ==
    [][IssuanceStep =>
          /\ tok'.kind = "Ok"
          /\ tok'.claims.iat = now
          /\ tok'.claims.exp = now + ClaimedWindow(expiresIn)]_vars

----------------------------------------------------------------------------
(* Claims about the user routes, checked under SpecUsers *)

HandlerStep(route) == req.pc = "authorized" /\ req.route = route /\ req'.pc = "done"
Sent(r, sql) == \E i \in 1..Len(r.stmts) : r.stmts[i].sql = sql
Stored(us, id) == \E u \in us : u.user_id = id

(* C11: deleting a user who has a ticket fails with ConflictError and
   leaves table users as it was; a DELETE is sent only after the count of
   the user's tickets was read as zero. *)
C11_DeleteBlockedByTickets ==
    [][HandlerStep("users_delete") =>
          /\ (Stored(users, req.id) /\ req.id \in tickets) =>
                /\ req'.err.kind = "ConflictError"
                /\ req'.status = 409
                /\ users' = users
                /\ ~Sent(req', "DELETE")
          /\ Sent(req', "DELETE") =>
                /\ req.id \notin tickets
                /\ \E i, j \in 1..Len(req'.stmts) :
                      /\ i < j
                      /\ req'.stmts[i].sql = "count_tickets"
                      /\ req'.stmts[i].binds = <<req.id>>
                      /\ req'.stmts[j].sql = "DELETE"
          /\ users' # users => Sent(req', "DELETE")]_vars

C11_Witness ==
    /\ req.pc = "done"
    /\ req.route = "users_delete"
    /\ req.id \in tickets
    /\ Stored(users, req.id)
    /\ req.err = [kind |-> "ConflictError", msg |-> <<"Cannot delete user with existing tickets">>]

UpdateServed == req.pc = "done" /\ req.route = "users_update" /\ req.handlerRan
Closed(r, i) == \E j \in 1..(i - 1) : r.stmts[j].sql \in {"COMMIT", "ROLLBACK"}

(* C16: the statements of a user update, the existence and uniqueness
   checks and the UPDATE, all run inside one transaction, which is
   committed only after the UPDATE succeeded and rolled back on every
   failure and early return. *)
C16_OneTransactionScope ==
    (UpdateServed /\ req.stmts # <<>>) =>
        /\ req.stmts[1].sql = "BEGIN"
        /\ \A i \in 1..Len(req.stmts) : ~Closed(req, i) => req.stmts[i].scope = "tx"
        /\ Sent(req, "COMMIT") => Sent(req, "UPDATE") /\ req.fault = NoFault
        /\ (req.err # NoError) => ~Sent(req, "COMMIT")

(* the part of C16 the code does keep: inside User::update the commit
   follows a successful UPDATE and every other exit rolls back *)
UpdateTransactionClosed ==
    (UpdateServed /\ Sent(req, "BEGIN")) =>
        /\ Sent(req, "COMMIT") <=> (Sent(req, "UPDATE") /\ req.fault = NoFault)
        /\ Sent(req, "COMMIT") <=> ~Sent(req, "ROLLBACK")

Served == req.pc = "done" /\ req.handlerRan
FaultHit == req.fault # NoFault /\ (Sent(req, "INSERT") \/ Sent(req, "UPDATE"))
HashFailed ==
    /\ ~req.hashed.ok
    /\ \/ req.route = "users_create" /\ req.input.password # NoneStr
       \/ req.route = "users_update" /\ req.update.password # NoneStr
    /\ req.err.kind = "InternalError"

ClaimedKind(err) ==
    IF err.kind = "Database" /\ err.code \in {"23000", "1062"} THEN "ConflictError"
    ELSE IF err.kind = "Database" /\ err.code \in {"23503", "1452"} THEN "ValidationError"
    ELSE IF err.kind = "RowNotFound" THEN "NotFoundError"
    ELSE "InternalError"

(* C17: a failure of the persistence layer leaves map_db_error as
   ConflictError for a duplicate-key code, ValidationError for a
   foreign-key code, NotFoundError for row-not-found and InternalError for
   every other failure, and as no other kind. *)
C17_StorageErrorsInTaxonomy ==
    /\ (Served /\ FaultHit) => req.err.kind = ClaimedKind(req.fault)
    /\ (Served /\ req.route \in {"users_get", "users_delete"} /\ ~Stored(users, req.id)
          /\ Len(req.stmts) = 1) =>
          req.err.kind = ClaimedKind(SqlxRowNotFound)

CauseTexts ==
    {BcryptRand} \cup UNION {{SqlxDisplay(e)[i] : i \in 1..Len(SqlxDisplay(e))} : e \in SqlxErrors}

(* C18: the response to an internal failure, of the hashing primitive or
   of the storage, has status 500 and a generic message: the text of the
   underlying cause is not in the body. *)
C18_NoCauseTextInBody ==
    (Served /\ (HashFailed \/ (FaultHit /\ ClaimedKind(req.fault) = "InternalError"))) =>
        /\ req.status = 500
        /\ \A i \in 1..Len(req.error) : req.error[i] \notin CauseTexts

(* C20: no successful response of register, login, login_phone, get_me or
   a user route carries the stored password hash: no object under "data"
   has a password member, and the password column is read only by the
   lookups of login and login_phone. *)
C20_PasswordNeverSerialized ==
    /\ (req.pc = "done" /\ req.status = 200) =>
          \A d \in req.data : "password" \notin DOMAIN d
    /\ (req.pc = "done" /\ req.matched # NoRow /\ "password" \in DOMAIN req.matched) =>
          req.route \in {"login", "login_phone"}

C20_Witness ==
    /\ req.pc = "done"
    /\ req.status = 200
    /\ req.route = "login"
    /\ req.matched.password = <<"$2b$", "pw">>
    /\ req.data # {}

ApiUsersRoutes == CrudRoutes \cup UserRoutes
VerifiedRole(header, secret, t) ==
    IF BearerToken(header) = <<>> THEN NoneStr
    ELSE LET v == verify_token(BearerToken(header)[1], secret, t)
         IN  IF v.ok THEN v.claims.role ELSE NoneStr

(* C23: a request to a route of /api/users reaches its handler, and the
   database, only when its token verified with role Admin; a request to
   me or logout reaches its handler only when its token verified, with any
   role; register, login and login_phone take no token. *)
C23_RouteGroupsGated ==
    /\ (req.route \in ApiUsersRoutes /\ (req.handlerRan \/ req.stmts # <<>>)) =>
          VerifiedRole(req.header, Secret, now) = Admin
    /\ (req.route \in ProtectedRoutes /\ (req.handlerRan \/ req.stmts # <<>>)) =>
          VerifiedRole(req.header, Secret, now) \in {Admin, Worker, User}
    /\ (req.route \in PublicRoutes /\ req.pc = "done") =>
          ~req.header.present /\ ~req.verifyCalled /\ req.allowed = {}

C23_Witness ==
    /\ req.pc = "done"
    /\ req.route = "users_create"
    /\ VerifiedRole(req.header, Secret, now) = User
    /\ req.status = 403
    /\ ~req.handlerRan
    /\ req.stmts = <<>>
    /\ \E u \in users : u.role = User

----------------------------------------------------------------------------
(* Claims about concurrent requests, checked under SpecRace *)

EmailOf(r) == IF r.route = "users_update" THEN r.update.email ELSE r.input.email
Wrote(r) == r.pc = "done" /\ (Sent(r, "INSERT") \/ Sent(r, "UPDATE"))
(* the row a request writes: the one named by the path, or the one it
   inserts; 0 when its INSERT is refused *)
RowOf(r) ==
    IF r.route = "users_update" THEN r.id
    ELSE IF r.status = 200 THEN (CHOOSE d \in r.data : TRUE).user_id
    ELSE 0
Raced(p, q) ==
    /\ p # q
    /\ Wrote(req[p]) /\ Wrote(req[q])
    /\ EmailOf(req[p]) = EmailOf(req[q])
    /\ RowOf(req[p]) # RowOf(req[q])

(* C22: after any interleaving of register, create_user and update_user
   requests no two rows of users hold the same email, and of two requests
   that both passed the email check and went on to write one email to two
   different rows, one succeeds and the other ends with ConflictError. *)
C22_EmailsStayUnique ==
    /\ \A u, v \in users : u.user_id # v.user_id => u.email # v.email
    /\ \A p, q \in Racers :
          Raced(p, q) =>
              /\ req[p].status = 200 \/ req[q].status = 200
              /\ req[p].status # 200 => req[p].err.kind = "ConflictError"
              /\ req[q].status # 200 => req[q].err.kind = "ConflictError"
              /\ ~(req[p].status = 200 /\ req[q].status = 200)

C22_Witness ==
    /\ Raced(1, 2)
    /\ req[1].route = "register"
    /\ req[2].route = "users_update"
    /\ req[2].status = 200
    /\ req[1].err = ConflictError(<<"Duplicate entry violation">>)
    /\ \E u \in users : u.user_id = req[2].id /\ u.email = "nu@x.com"

----------------------------------------------------------------------------
(* Claims about User::create and User::update, checked under SpecBuilder *)

FixedColumnOrder ==
    <<"email", "password", "first_name", "last_name", "passport_number", "nationality",
      "date_of_birth", "contact_number", "gender">>
PositionOf(column) == CHOOSE i \in 1..Len(FixedColumnOrder) : FixedColumnOrder[i] = column
UpdateSent(r) == r.stmts[CHOOSE i \in 1..Len(r.stmts) : r.stmts[i].sql = "UPDATE"]
Updated == req.pc = "done" /\ req.route = "User::update" /\ Sent(req, "UPDATE")
PresentFields(user_data) == {c \in DOMAIN user_data : user_data[c] # NoneStr}
ExpectedBind(r, column) ==
    IF column = "password" THEN <<"$2b$", r.update.password>> ELSE r.update[column]

(* C13: for every set of present fields the SET clauses and the bound
   values follow the one fixed column order: the i-th placeholder is bound
   to the value of the i-th listed column, there is one bind per
   placeholder, and the user id is bound once, last.  The row stored
   afterwards holds each present field's value in its own column. *)
C13_ClausesAndBindsAligned ==
    Updated =>
        LET st == UpdateSent(req)
            n == Len(st.clauses)
        IN  /\ {st.clauses[i] : i \in 1..n} = PresentFields(req.update)
            /\ \A i, j \in 1..n : i < j => PositionOf(st.clauses[i]) < PositionOf(st.clauses[j])
            /\ Len(st.binds) = n + 1
            /\ \A i \in 1..n : st.binds[i] = ExpectedBind(req, st.clauses[i])
            /\ st.binds[n + 1] = req.id
            /\ (req.fault = NoFault) =>
                  \A u \in users : u.user_id = req.id =>
                      \A c \in PresentFields(req.update) : u[c] = ExpectedBind(req, c)

C13_Witness ==
    /\ Updated
    /\ PresentFields(req.update) = {"first_name", "last_name", "gender"}
    /\ Stored(users, req.id)
    /\ req.val

UpdateCall == req.pc = "idle" /\ req'.pc = "done" /\ req'.route = "User::update"
CreateCall == req.pc = "idle" /\ req'.pc = "done" /\ req'.route = "User::create"

(* C14: an update with no field present sends no UPDATE statement, leaves
   the stored rows as they were and returns Ok(false). *)
C14_EmptyUpdateIsNoOp ==
    [][(UpdateCall /\ PresentFields(req'.update) = {}) =>
          /\ ~Sent(req', "UPDATE")
          /\ users' = users
          /\ req'.err = NoError
          /\ req'.val = FALSE]_vars

C14_Witness ==
    /\ req.pc = "done"
    /\ req.route = "User::update"
    /\ req.update = NoUpdate
    /\ Stored(users, req.id)
    /\ req.err = NoError
    /\ ~req.val

WritesSent(r) ==
    {i \in 1..Len(r.stmts) : r.stmts[i].sql \in {"INSERT", "UPDATE", "DELETE"}}
PasswordBinds(st) ==
    {st.binds[i] : i \in {i \in 1..Len(st.clauses) : st.clauses[i] = "password"}}

(* C15: in every create and every update that carries a password, the
   value bound to the password column is the hash of the plaintext, never
   the plaintext; when the hashing primitive fails the call returns
   InternalError and no statement has been sent and nothing written. *)
C15_PasswordHashedFirst ==
    [][/\ (UpdateCall /\ req'.update.password # NoneStr) =>
             IF req'.hashed.ok
             THEN /\ \A i \in WritesSent(req') :
                        PasswordBinds(req'.stmts[i]) = {<<"$2b$", req'.update.password>>}
                  /\ (req'.err = NoError) =>
                        \A u \in users' : u.user_id = req'.id =>
                            u.password = <<"$2b$", req'.update.password>>
             ELSE /\ req'.err.kind = "InternalError"
                  /\ req'.stmts = <<>>
                  /\ users' = users
       /\ (CreateCall /\ req'.input.password # NoneStr) =>
             IF req'.hashed.ok
             THEN /\ \A i \in WritesSent(req') :
                        PasswordBinds(req'.stmts[i]) = {<<"$2b$", req'.input.password>>}
                  /\ (req'.err = NoError) =>
                        \E u \in users' \ users :
                            u.password = <<"$2b$", req'.input.password>>
             ELSE /\ req'.err.kind = "InternalError"
                  /\ req'.stmts = <<>>
                  /\ users' = users]_vars

C15_Witness ==
    /\ req.pc = "done"
    /\ req.route = "User::update"
    /\ req.update.password # NoneStr
    /\ req.update.email # NoneStr
    /\ ~req.hashed.ok
    /\ req.err.kind = "InternalError"
    /\ req.stmts = <<>>

=============================================================================
